---- MODULE Spec2Model ----
(***************************************************************************)
(* Entrega de articulos (static/js/bodega/entrega-articulos.js) and        *)
(* entrega de bienes (the second script, EntregaBienes): the dynamic row   *)
(* table of each form, the request-linked mode of the articles form, the   *)
(* validation run at submit and the payload written to detallesJson.       *)
(*                                                                         *)
(* A page holds one of the two forms (both address fila_N, cantidad_N and  *)
(* detallesJson), so one state describes the page of either form; `form`   *)
(* says which script is loaded.                                            *)
(*                                                                         *)
(* Numbers typed into <input type="number"> are counted in halves: the     *)
(* value <<3>> is the text "1.5", <<2>> is "1", <<>> is the empty value    *)
(* (parseFloat and parseInt give NaN on it).  Stock and pending quantities *)
(* use the same unit.                                                      *)
(***************************************************************************)
EXTENDS Integers, Sequences, FiniteSets, TLC

\* ---------------------------------------------------------------- bounds
\* Largest value contadorFilas may reach before add-row stops being taken.
MaxContador == 2
\* Largest number of request fetches awaiting their response at once.
MaxEnVuelo == 2
\* Largest quantity (in halves) a user types into a cantidad input.
MaxCantidad == 3
\* Longest text handed to escapeHtml.
MaxTexto == 4

\* ------------------------------------------------------- data of the page
\* init(articulos): the catalog handed to EntregaArticulos, with the stock
\* each option carries in data-stock.
articulosDisponibles ==
    << [id |-> 1, stock |-> 2, codigo |-> << "A", "1" >>,
        nombre |-> << "<", "b", ">" >>, unidad |-> << "k", "g" >>],
       [id |-> 2, stock |-> 1, codigo |-> << "A", "2" >>,
        nombre |-> << "a", "&", "b" >>, unidad |-> << "<", "u", ">" >>] >>

\* init(activos): the catalog handed to EntregaBienes.
activosDisponibles ==
    << [id |-> 1, nombre |-> << "<", "i", ">" >>, codigo |-> << "E", "1" >>,
        categoria |-> << "'", "c", "'" >>],
       [id |-> 2, nombre |-> << "p", "c" >>, codigo |-> << >>,
        categoria |-> << >>] >>

\* The options of the request selector (value "" is 0).
Solicitudes == {1, 2}

\* What the endpoint /bodega/ajax/solicitud/<id>/articulos/ holds for each
\* request: its header and its pending lines.
SolicitudDe(r) ==
    [numero |-> r, bodega_origen_id |-> IF r = 1 THEN 1 ELSE 0,
     solicitante |-> IF r = 1 THEN << "<", "s", ">" >> ELSE << "a", "n", "a" >>,
     departamento |-> << "t", "i" >>,
     motivo |-> IF r = 1 THEN << >> ELSE << "\"", "m", "\"" >>]

\* The lines of request r that are still pending when the page loads.
ArticulosDe(r) ==
    CASE r = 1 -> << [detalle_solicitud_id |-> 11, articulo_id |-> 1,
                      cantidad_pendiente |-> 1, stock_actual |-> 2,
                      articulo_codigo |-> << "A", "1" >>,
                      articulo_nombre |-> << "<", "b", ">" >>,
                      unidad_medida |-> << "k", "g" >>] >>
      [] r = 2 -> << [detalle_solicitud_id |-> 21, articulo_id |-> 1,
                      cantidad_pendiente |-> 2, stock_actual |-> 2,
                      articulo_codigo |-> << "A", "1" >>,
                      articulo_nombre |-> << "<", "b", ">" >>,
                      unidad_medida |-> << "k", "g" >>],
                     [detalle_solicitud_id |-> 22, articulo_id |-> 2,
                      cantidad_pendiente |-> 2, stock_actual |-> 1,
                      articulo_codigo |-> << "A", "2" >>,
                      articulo_nombre |-> << "a", "&", "b" >>,
                      unidad_medida |-> << "<", "u", ">" >>] >>
      [] OTHER -> << >>

\* The shapes a response body can take: {success, solicitud?, articulos?}.
\* articulos is absent, or the empty list (every line of the request has
\* been delivered meanwhile), or the pending lines of the request.
Respuestas ==
    [success : BOOLEAN, conSolicitud : BOOLEAN,
     articulos : {"ausente", "vacio", "lineas"}]

\* The response bodies in which a success carries both solicitud and
\* articulos.
RespuestasBienFormadas ==
    { resp \in Respuestas :
        resp.success => (resp.conSolicitud /\ resp.articulos # "ausente") }

\* Values of a number input: empty, or a number.
Cantidades == {<< >>} \cup { <<n>> : n \in 0..MaxCantidad }
\* Values of a free-text input (lote, numero de serie).
Textos == {"", "L1"}
\* Values of the estado_fisico select.
Estados == {"", "BUENO"}

VARIABLES
    form,               \* "articulos" | "bienes": the script of the page
    tbody,              \* children of articulosBody / bienesBody, in order
    contadorFilas,      \* EntregaArticulos.contadorFilas / EntregaBienes.contadorFilas
    esSolicitud,        \* EntregaArticulos.esSolicitud
    btnAgregarDisabled, \* btnAgregarArticulo.disabled
    selectSolicitud,    \* id_solicitud.value (0 is "")
    enVuelo,            \* requests whose fetch has not completed, in issue order
    ultima,             \* outcome of the fetch issued by the latest selector change
    infoSolicitud,      \* infoSolicitud panel: shown?, and the request in datosSolicitud
    bodegaOrigen,       \* id_bodega_origen.value (0 is "")
    detallesJson,       \* detallesJson.value: << >> is "", <<p>> the text of payload p
    enviados,           \* number of calls of form.submit()
    alertas,            \* alert() calls raised by the latest event of the page
    maxIdSesion,        \* largest row id handed out since the page loaded (-1: none)
    maxIdCiclo,         \* largest row id handed out since limpiarTabla last ran (-1: none)
    unsafe,             \* the argument of a call of escapeHtml
    escapado            \* whether that call has returned, and what it returned

vars == << form, tbody, contadorFilas, esSolicitud, btnAgregarDisabled,
           selectSolicitud, enVuelo, ultima, infoSolicitud, bodegaOrigen,
           detallesJson, enviados, alertas, maxIdSesion, maxIdCiclo,
           unsafe, escapado >>

\* The call of escapeHtml that is followed on its own.
llamada == << unsafe, escapado >>

\* ------------------------------------------------------------------ rows
\* The placeholder row: one cell spanning the table (cells.length = 1).
FilaVacia(msg) ==
    [tipo |-> "vacia", id |-> -1, articulo |-> 0, cantidad |-> << >>,
     lote |-> "", estado_fisico |-> "", detalle_solicitud |-> 0,
     pendiente |-> 0, stock |-> 0, msg |-> msg]

\* crearInputCantidad(idFila, articulo): the value and data attributes of
\* the cantidad input of a linked row.
crearInputCantidad(articulo) ==
    [cantidad |-> << articulo.cantidad_pendiente >>,
     pendiente |-> articulo.cantidad_pendiente,
     stock |-> articulo.stock_actual]

\* agregarFilaSolicitud builds fila_<n> with the hidden inputs articulo_<n>
\* and detalle_solicitud_<n>, the cantidad input and an empty lote.
FilaSolicitud(n, articulo) ==
    LET c == crearInputCantidad(articulo) IN
    [tipo |-> "solicitud", id |-> n, articulo |-> articulo.articulo_id,
     cantidad |-> c.cantidad, lote |-> "", estado_fisico |-> "",
     detalle_solicitud |-> articulo.detalle_solicitud_id,
     pendiente |-> c.pendiente, stock |-> c.stock, msg |-> ""]

\* agregarArticulo builds fila_<n> with an unselected select, an empty
\* cantidad and an empty lote.
FilaManual(n) ==
    [tipo |-> "manual", id |-> n, articulo |-> 0, cantidad |-> << >>,
     lote |-> "", estado_fisico |-> "", detalle_solicitud |-> 0,
     pendiente |-> 0, stock |-> 0, msg |-> ""]

\* agregarBien builds fila_<n> with an unselected select, cantidad "1",
\* an empty serie and an unselected estado.
FilaBien(n) ==
    [tipo |-> "bien", id |-> n, articulo |-> 0, cantidad |-> << 2 >>,
     lote |-> "", estado_fisico |-> "", detalle_solicitud |-> 0,
     pendiente |-> 0, stock |-> 0, msg |-> ""]

\* tbody.children.length === 1 && tbody.children[0].cells.length === 1
SoloFilaVacia(tb) == Len(tb) = 1 /\ tb[1].tipo = "vacia"

\* The rows of the container that are not the placeholder.
FilasReales(tb) == { k \in 1..Len(tb) : tb[k].tipo # "vacia" }

\* document.getElementById(`fila_${i}`): position of the first row with
\* that id, 0 when there is none.
IndiceFila(tb, i) ==
    IF \E k \in 1..Len(tb) : tb[k].id = i
    THEN CHOOSE k \in 1..Len(tb) :
            tb[k].id = i /\ \A j \in 1..(k - 1) : tb[j].id # i
    ELSE 0

\* fila.remove()
SinFila(tb, k) == [j \in 1..(Len(tb) - 1) |-> IF j < k THEN tb[j] ELSE tb[j + 1]]

Max(a, b) == IF a > b THEN a ELSE b

\* A counter that is not advanced after a row is built.
SiguienteContadorFijo(n) == n

\* this.contadorFilas++ at the end of agregarFilaSolicitud, agregarArticulo
\* and agregarBien.
SiguienteContador(n) == n + 1

\* The largest of m and the ids of the rows of tb.
RECURSIVE IdMayor(_, _)
IdMayor(tb, m) ==
    IF Len(tb) = 0 THEN m ELSE IdMayor(Tail(tb), Max(m, Head(tb).id))

\* ------------------------------------------------------- JavaScript values
\* parseFloat(text) of a number input's value: the number, or NaN (<< >>).
parseFloat(v) == v

\* parseInt(text): the integer part of the number (a value counts halves),
\* or NaN (<< >>).
parseInt(v) == IF v = << >> THEN << >> ELSE << (v[1] \div 2) * 2 >>

\* a > b on numbers: false when either side is NaN.
Mayor(a, b) == a # << >> /\ b # << >> /\ a[1] > b[1]

\* a <= 0 on numbers: false when a is NaN.
NoPositivo(a) == a # << >> /\ a[1] <= 0

Numero(v) == [t |-> "number", n |-> v, s |-> ""]
Cadena(s) == [t |-> "string", n |-> << >>, s |-> s]
Nulo == [t |-> "null", n |-> << >>, s |-> ""]

\* text || null
ONulo(s) == IF s = "" THEN Nulo ELSE Cadena(s)

\* JSON.stringify of a value: NaN is written as null, a string is quoted,
\* a number is written as a number literal.
JSONValor(x) ==
    CASE x.t = "number" /\ x.n = << >> -> [lit |-> "null", n |-> 0, s |-> ""]
      [] x.t = "number" -> [lit |-> "numero", n |-> x.n[1], s |-> ""]
      [] x.t = "string" -> [lit |-> "cadena", n |-> 0, s |-> x.s]
      [] OTHER -> [lit |-> "null", n |-> 0, s |-> ""]

\* JSON.stringify(detalles): the objects in array order, each with its
\* keys in insertion order.
JSONstringify(detalles) ==
    [i \in 1..Len(detalles) |->
        [j \in 1..Len(detalles[i]) |->
            [k |-> detalles[i][j].k, v |-> JSONValor(detalles[i][j].v)]]]

Alerta(texto, valores) == [texto |-> texto, valores |-> valores]

\* ------------------------------------------------------------- escapeHtml
\* A text is the sequence of its characters.  The values escapeHtml is
\* handed: a text, a number, or undefined / null.
Texto(cs) == [t |-> "string", cs |-> cs, n |-> 0]
NumeroJS(n) == [t |-> "number", cs |-> << >>, n |-> n]
Indefinido == [t |-> "undefined", cs |-> << >>, n |-> 0]

\* The characters of the texts tried: the five that escapeHtml replaces
\* and those that spell "&lt;".
Caracteres == {"&", "<", ">", "\"", "'", "l", "t", ";"}

RECURSIVE TextosHasta(_)
TextosHasta(n) ==
    IF n = 0 THEN { << >> }
    ELSE TextosHasta(n - 1)
         \cup { Append(cs, c) : cs \in TextosHasta(n - 1), c \in Caracteres }

ValoresEscape ==
    { Texto(cs) : cs \in TextosHasta(MaxTexto) }
    \cup { NumeroJS(n) : n \in 0..1 } \cup { Indefinido }

\* !unsafe
Falsy(x) ==
    \/ x.t = "undefined"
    \/ x.t = "number" /\ x.n = 0
    \/ x.t = "string" /\ x.cs = << >>

\* unsafe.toString()
toString(x) ==
    IF x.t = "string" THEN x.cs
    ELSE << << "0", "1", "2", "3", "4", "5", "6", "7", "8", "9" >>[x.n + 1] >>

\* cs.replace(/c/g, por)
RECURSIVE replace(_, _, _)
replace(cs, c, por) ==
    IF cs = << >> THEN << >>
    ELSE (IF Head(cs) = c THEN por ELSE << Head(cs) >>) \o replace(Tail(cs), c, por)

\* escapeHtml(unsafe) of either script.
escapeHtml(x) ==
    IF Falsy(x) THEN << >>
    ELSE replace(replace(replace(replace(replace(toString(x),
            "&", << "&", "a", "m", "p", ";" >>),
            "<", << "&", "l", "t", ";" >>),
            ">", << "&", "g", "t", ";" >>),
            "\"", << "&", "q", "u", "o", "t", ";" >>),
            "'", << "&", "#", "0", "3", "9", ";" >>)

\* The entity that stands for a character, or the character itself.
Entidad(c) ==
    CASE c = "&" -> << "&", "a", "m", "p", ";" >>
      [] c = "<" -> << "&", "l", "t", ";" >>
      [] c = ">" -> << "&", "g", "t", ";" >>
      [] c = "\"" -> << "&", "q", "u", "o", "t", ";" >>
      [] c = "'" -> << "&", "#", "0", "3", "9", ";" >>
      [] OTHER -> << c >>

\* Whether cs begins with p.
Empieza(cs, p) == Len(cs) >= Len(p) /\ SubSeq(cs, 1, Len(p)) = p

\* What the HTML parser reads back from text written into markup: each of
\* the five entities is its character again.
RECURSIVE Decodificar(_)
Decodificar(cs) ==
    IF cs = << >> THEN << >>
    ELSE IF \E c \in {"&", "<", ">", "\"", "'"} : Empieza(cs, Entidad(c))
    THEN LET c == CHOOSE c \in {"&", "<", ">", "\"", "'"} : Empieza(cs, Entidad(c))
         IN  << c >> \o Decodificar(SubSeq(cs, Len(Entidad(c)) + 1, Len(cs)))
    ELSE << Head(cs) >> \o Decodificar(Tail(cs))

\* ------------------------------------------------------------- validators
\* A validator of request rows that forgets the stock.
validarCantidadSolicitudSinStock(f) ==
    IF Mayor(parseFloat(f.cantidad), << f.pendiente >>)
    THEN << Alerta("excede_pendiente", parseFloat(f.cantidad) \o << f.pendiente >>) >>
    ELSE << >>

\* A validator of request rows that looks at the stock before the pending
\* quantity.
validarCantidadSolicitudStockPrimero(f) ==
    IF Mayor(parseFloat(f.cantidad), << f.stock >>)
    THEN << Alerta("excede_stock_solicitud", parseFloat(f.cantidad) \o << f.stock >>) >>
    ELSE IF Mayor(parseFloat(f.cantidad), << f.pendiente >>)
    THEN << Alerta("excede_pendiente", parseFloat(f.cantidad) \o << f.pendiente >>) >>
    ELSE << >>

\* validarCantidadSolicitud(inputCantidad): << >> when the quantity passes,
\* else the alert raised.
validarCantidadSolicitud(f) ==
    LET cantidadPendiente == << f.pendiente >>
        cantidadAEntregar == parseFloat(f.cantidad)
        stockDisponible == << f.stock >>
    IN  IF Mayor(cantidadAEntregar, cantidadPendiente)
        THEN << Alerta("excede_pendiente", cantidadAEntregar \o cantidadPendiente) >>
        ELSE IF Mayor(cantidadAEntregar, stockDisponible)
        THEN << Alerta("excede_stock_solicitud", cantidadAEntregar \o stockDisponible) >>
        ELSE << >>

\* The data-stock of the first article of the catalog, whatever is selected.
StockDePrimeraOpcion(a) == << articulosDisponibles[1].stock >>

\* The data-stock of the option selected in a row's select.
StockDeOpcion(a) ==
    LET k == CHOOSE k \in 1..Len(articulosDisponibles) :
                 articulosDisponibles[k].id = a
    IN  << articulosDisponibles[k].stock >>

\* validarStockDisponible(selectArticulo, inputCantidad): << >> when the
\* quantity passes, else the alert raised.
validarStockDisponible(f) ==
    LET stockDisponible == StockDeOpcion(f.articulo)
        cantidadSolicitada == parseFloat(f.cantidad)
    IN  IF Mayor(cantidadSolicitada, stockDisponible)
        THEN << Alerta("excede_stock", cantidadSolicitada \o stockDisponible) >>
        ELSE << >>

Rechazo(al) == [res |-> "rechazo", alertas |-> al, detalles |-> << >>]

\* A record of the articles form that never carries the linking field.
DetalleArticuloSinDetalle(f, detalleSolicitudId) ==
    << [k |-> "articulo_id", v |-> Numero(<< f.articulo >>)],
       [k |-> "cantidad", v |-> Numero(parseFloat(f.cantidad))],
       [k |-> "lote", v |-> ONulo(f.lote)] >>

\* The record pushed for a row of the articles form.
DetalleArticulo(f, detalleSolicitudId) ==
    << [k |-> "articulo_id", v |-> Numero(<< f.articulo >>)],
       [k |-> "cantidad", v |-> Numero(parseFloat(f.cantidad))],
       [k |-> "lote", v |-> ONulo(f.lote)] >>
    \o (IF detalleSolicitudId # 0
        THEN << [k |-> "detalle_solicitud_id", v |-> Numero(<< detalleSolicitudId >>)] >>
        ELSE << >>)

\* The loop of EntregaArticulos.validarYEnviarFormulario from index i on.
RECURSIVE RecorrerArticulos(_, _, _, _, _)
RecorrerArticulos(tb, i, n, modo, detalles) ==
    IF i >= n THEN [res |-> "ok", alertas |-> << >>, detalles |-> detalles]
    ELSE
    LET k == IndiceFila(tb, i) IN
    IF k = 0 THEN RecorrerArticulos(tb, i + 1, n, modo, detalles)
    ELSE
    LET f == tb[k]
        cantidadInvalida == f.cantidad = << >> \/ NoPositivo(parseFloat(f.cantidad))
    IN
    IF modo
    THEN \* modo solicitud
         IF f.tipo # "solicitud"
         THEN \* no detalle_solicitud_<i> input: continue
              RecorrerArticulos(tb, i + 1, n, modo, detalles)
         ELSE IF validarCantidadSolicitud(f) # << >>
              THEN Rechazo(validarCantidadSolicitud(f))
         ELSE IF cantidadInvalida
              THEN Rechazo(<< Alerta("cantidad_valida", << >>) >>)
         ELSE RecorrerArticulos(tb, i + 1, n, modo,
                  Append(detalles, DetalleArticulo(f, f.detalle_solicitud)))
    ELSE \* modo manual
         IF f.articulo = 0
         THEN Rechazo(<< Alerta("seleccione_articulo", << >>) >>)
         ELSE IF f.tipo # "manual"
              THEN \* a hidden input has no options: TypeError, nothing sent
                   [res |-> "excepcion", alertas |-> << >>, detalles |-> << >>]
         ELSE IF validarStockDisponible(f) # << >>
              THEN Rechazo(validarStockDisponible(f))
         ELSE IF cantidadInvalida
              THEN Rechazo(<< Alerta("cantidad_valida", << >>) >>)
         ELSE RecorrerArticulos(tb, i + 1, n, modo,
                  Append(detalles, DetalleArticulo(f, 0)))

\* An empty test that only knows the placeholder.
SinFilasSoloVacia(tb) == Len(tb) > 0 /\ tb[1].tipo = "vacia"

\* !tbody || tbody.children.length === 0 || tbody.children[0].cells.length === 1
SinFilas(tb) == Len(tb) = 0 \/ tb[1].tipo = "vacia"

\* EntregaArticulos.validarYEnviarFormulario up to the write of the field.
ValidarArticulos(tb, n, modo) ==
    IF SinFilas(tb)
    THEN Rechazo(<< Alerta("debe_agregar_articulo", << >>) >>)
    ELSE RecorrerArticulos(tb, 0, n, modo, << >>)

\* The record pushed for a row of the goods form.
DetalleBien(f) ==
    << [k |-> "equipo_id", v |-> Numero(<< f.articulo >>)],
       [k |-> "cantidad", v |-> Numero(parseInt(f.cantidad))],
       [k |-> "numero_serie", v |-> ONulo(f.lote)],
       [k |-> "estado_fisico", v |-> ONulo(f.estado_fisico)] >>

\* The loop of EntregaBienes.validarYEnviarFormulario from index i on.
RECURSIVE RecorrerBienes(_, _, _, _)
RecorrerBienes(tb, i, n, detalles) ==
    IF i >= n THEN [res |-> "ok", alertas |-> << >>, detalles |-> detalles]
    ELSE
    LET k == IndiceFila(tb, i) IN
    IF k = 0 THEN RecorrerBienes(tb, i + 1, n, detalles)
    ELSE
    LET f == tb[k] IN
    IF f.articulo = 0
    THEN Rechazo(<< Alerta("seleccione_bien", << >>) >>)
    ELSE IF f.cantidad = << >> \/ NoPositivo(parseInt(f.cantidad))
    THEN Rechazo(<< Alerta("cantidad_valida", << >>) >>)
    ELSE RecorrerBienes(tb, i + 1, n, Append(detalles, DetalleBien(f)))

\* EntregaBienes.validarYEnviarFormulario up to the write of the field.
ValidarBienes(tb, n) ==
    IF SinFilas(tb)
    THEN Rechazo(<< Alerta("debe_agregar_bien", << >>) >>)
    ELSE RecorrerBienes(tb, 0, n, << >>)

\* ------------------------------------------------------------------ state
\* The page as the server renders it.
InitPagina ==
    /\ form \in {"articulos", "bienes"}
    \* the container as the page renders it: no child, or the placeholder
    /\ tbody \in { << >>,
                   << FilaVacia(IF form = "articulos" THEN "sin_agregados"
                                                      ELSE "sin_bienes") >> }
    /\ contadorFilas = 0
    /\ esSolicitud = FALSE
    /\ btnAgregarDisabled = FALSE
    /\ selectSolicitud = 0
    /\ enVuelo = << >>
    /\ ultima = "ninguna"
    /\ infoSolicitud = [visible |-> FALSE, datos |-> 0]
    /\ bodegaOrigen = 0
    /\ detallesJson = << >>
    /\ enviados = 0
    /\ alertas = << >>
    /\ maxIdSesion = -1
    /\ maxIdCiclo = -1

Init ==
    /\ InitPagina
    /\ unsafe = Indefinido
    /\ escapado = [hecho |-> FALSE, texto |-> << >>]

\* form.submit() navigates away: the page takes no further event.
Abierta == enviados = 0

\* --------------------------------------------- articles form: the request
\* A limpiarTabla that keeps the counter.
limpiarTablaSinReset ==
    [tbody |-> << FilaVacia("sin_agregados") >>, contadorFilas |-> contadorFilas]

\* limpiarTabla(): the placeholder replaces every child, the counter is 0.
limpiarTabla ==
    [tbody |-> << FilaVacia("sin_agregados") >>, contadorFilas |-> 0]

\* change of id_solicitud to a request: cargarArticulosSolicitud runs up to
\* its first await; the fetch is in flight.
CambiarSolicitud(r) ==
    /\ Abierta /\ form = "articulos"
    /\ r # selectSolicitud
    /\ Len(enVuelo) < MaxEnVuelo
    /\ selectSolicitud' = r
    /\ enVuelo' = Append(enVuelo, r)
    /\ ultima' = "pendiente"
    /\ alertas' = << >>
    /\ UNCHANGED << llamada, form, tbody, contadorFilas, esSolicitud, btnAgregarDisabled,
                    infoSolicitud, bodegaOrigen, detallesJson, enviados,
                    maxIdSesion, maxIdCiclo >>

\* change of id_solicitud to "": limpiarArticulosSolicitud().
LimpiarSeleccion ==
    /\ Abierta /\ form = "articulos"
    /\ selectSolicitud # 0
    /\ selectSolicitud' = 0
    /\ ultima' = "ninguna"
    /\ esSolicitud' = FALSE
    /\ infoSolicitud' = [infoSolicitud EXCEPT !.visible = FALSE]
    /\ tbody' = limpiarTabla.tbody
    /\ contadorFilas' = limpiarTabla.contadorFilas
    /\ maxIdCiclo' = -1
    /\ btnAgregarDisabled' = FALSE
    /\ alertas' = << >>
    /\ UNCHANGED << llamada, form, enVuelo, bodegaOrigen, detallesJson, enviados,
                    maxIdSesion >>

\* The fetches still in flight once the k-th has completed.
SinVuelo(k) == SinFila(enVuelo, k)

\* The outcome recorded for the latest selection when the k-th fetch in
\* flight completes with outcome o: only the fetch issued last counts.
UltimaTras(k, o) ==
    IF ultima = "pendiente" /\ k = Len(enVuelo) THEN o ELSE ultima

\* articulos.forEach(art => this.agregarFilaSolicitud(art)) from counter n.
RECURSIVE FilasDeSolicitud(_, _)
FilasDeSolicitud(articulos, n) ==
    IF Len(articulos) = 0 THEN << >>
    ELSE << FilaSolicitud(n, Head(articulos)) >>
         \o FilasDeSolicitud(Tail(articulos), SiguienteContador(n))

\* The counter after agregarFilaSolicitud has run once per line.
RECURSIVE ContadorTras(_, _)
ContadorTras(articulos, n) ==
    IF Len(articulos) = 0 THEN n
    ELSE ContadorTras(Tail(articulos), SiguienteContador(n))

\* A load that builds the rows and leaves the counter where it was.
cargarArticulosEnTablaSinContar(articulos, n) ==
    IF Len(articulos) = 0
    THEN [tbody |-> << FilaVacia("sin_articulos_solicitud") >>, contadorFilas |-> n]
    ELSE [tbody |-> FilasDeSolicitud(articulos, n), contadorFilas |-> n]

\* cargarArticulosEnTabla(articulos): the container and the counter after it.
cargarArticulosEnTabla(articulos, n) ==
    IF Len(articulos) = 0
    THEN [tbody |-> << FilaVacia("sin_articulos_solicitud") >>, contadorFilas |-> n]
    ELSE [tbody |-> FilasDeSolicitud(articulos, n),
          contadorFilas |-> ContadorTras(articulos, n)]

\* A catch block that also empties the table.
FetchRechazadoLimpia(k) ==
    /\ Abierta /\ form = "articulos"
    /\ k \in 1..Len(enVuelo)
    /\ enVuelo' = SinVuelo(k)
    /\ ultima' = UltimaTras(k, "fallo")
    /\ alertas' = << Alerta("error_cargar", << >>) >>
    /\ tbody' = << FilaVacia("sin_agregados") >>
    /\ UNCHANGED << llamada, form, contadorFilas, esSolicitud, btnAgregarDisabled,
                    selectSolicitud, infoSolicitud, bodegaOrigen, detallesJson,
                    enviados, maxIdSesion, maxIdCiclo >>

\* The fetch rejects, or response.json() does: the catch block.
FetchRechazado(k) ==
    /\ Abierta /\ form = "articulos"
    /\ k \in 1..Len(enVuelo)
    /\ enVuelo' = SinVuelo(k)
    /\ ultima' = UltimaTras(k, "fallo")
    /\ alertas' = << Alerta("error_cargar", << >>) >>
    /\ UNCHANGED << llamada, form, tbody, contadorFilas, esSolicitud, btnAgregarDisabled,
                    selectSolicitud, infoSolicitud, bodegaOrigen, detallesJson,
                    enviados, maxIdSesion, maxIdCiclo >>

\* The response says success: false: the else branch.
RespuestaSinExito(k, resp) ==
    /\ Abierta /\ form = "articulos"
    /\ k \in 1..Len(enVuelo)
    /\ ~resp.success
    /\ enVuelo' = SinVuelo(k)
    /\ ultima' = UltimaTras(k, "fallo")
    /\ alertas' = << Alerta("error_cargar_detalle", << >>) >>
    /\ UNCHANGED << llamada, form, tbody, contadorFilas, esSolicitud, btnAgregarDisabled,
                    selectSolicitud, infoSolicitud, bodegaOrigen, detallesJson,
                    enviados, maxIdSesion, maxIdCiclo >>

\* The response says success: true: the then branch, which stops at the
\* first read of a field of an absent solicitud or articulos (TypeError,
\* caught by the catch block).
RespuestaExito(k, resp) ==
    /\ Abierta /\ form = "articulos"
    /\ k \in 1..Len(enVuelo)
    /\ resp.success
    /\ LET r == enVuelo[k]
           articulos == IF resp.articulos = "lineas" THEN ArticulosDe(r) ELSE << >>
           solicitud == SolicitudDe(r)
           carga == cargarArticulosEnTabla(articulos, contadorFilas)
       IN
       /\ enVuelo' = SinVuelo(k)
       /\ esSolicitud' = TRUE
       /\ IF ~resp.conSolicitud
          THEN \* mostrarInfoSolicitud: solicitud.numero of undefined
               /\ ultima' = UltimaTras(k, "fallo")
               /\ alertas' = << Alerta("error_cargar", << >>) >>
               /\ UNCHANGED << tbody, contadorFilas, btnAgregarDisabled,
                               infoSolicitud, bodegaOrigen, maxIdSesion,
                               maxIdCiclo >>
          ELSE IF resp.articulos = "ausente"
          THEN \* cargarArticulosEnTabla: tbody emptied, then articulos.length
               /\ infoSolicitud' = [visible |-> TRUE, datos |-> solicitud.numero]
               /\ tbody' = << >>
               /\ ultima' = UltimaTras(k, "fallo")
               /\ alertas' = << Alerta("error_cargar", << >>) >>
               /\ UNCHANGED << contadorFilas, btnAgregarDisabled, bodegaOrigen,
                               maxIdSesion, maxIdCiclo >>
          ELSE /\ carga.contadorFilas <= MaxContador
               /\ infoSolicitud' = [visible |-> TRUE, datos |-> solicitud.numero]
               /\ tbody' = carga.tbody
               /\ contadorFilas' = carga.contadorFilas
               /\ maxIdSesion' = IdMayor(carga.tbody, maxIdSesion)
               /\ maxIdCiclo' = IdMayor(carga.tbody, maxIdCiclo)
               /\ btnAgregarDisabled' = TRUE
               /\ bodegaOrigen' = IF solicitud.bodega_origen_id # 0
                                  THEN solicitud.bodega_origen_id
                                  ELSE bodegaOrigen
               /\ ultima' = UltimaTras(k, "ok")
               /\ alertas' = << >>
    /\ UNCHANGED << llamada, form, selectSolicitud, detallesJson, enviados >>

\* ------------------------------------------------- both forms: the rows
\* An add-row that keeps the placeholder above the new row.
ConFilaSinQuitar(tb, fila) == Append(tb, fila)

\* agregarArticulo() / agregarBien(): the container after the placeholder
\* is dropped and fila_<n> is appended.
ConFila(tb, fila) ==
    Append(IF SoloFilaVacia(tb) THEN << >> ELSE tb, fila)

\* click on btnAgregarArticulo (a disabled button takes no click).
AgregarArticulo ==
    /\ Abierta /\ form = "articulos"
    /\ ~btnAgregarDisabled
    /\ contadorFilas < MaxContador
    /\ tbody' = ConFila(tbody, FilaManual(contadorFilas))
    /\ contadorFilas' = SiguienteContador(contadorFilas)
    /\ maxIdSesion' = Max(maxIdSesion, contadorFilas)
    /\ maxIdCiclo' = Max(maxIdCiclo, contadorFilas)
    /\ alertas' = << >>
    /\ UNCHANGED << llamada, form, esSolicitud, btnAgregarDisabled, selectSolicitud,
                    enVuelo, ultima, infoSolicitud, bodegaOrigen, detallesJson,
                    enviados >>

\* click on btnAgregarBien.
AgregarBien ==
    /\ Abierta /\ form = "bienes"
    /\ contadorFilas < MaxContador
    /\ tbody' = ConFila(tbody, FilaBien(contadorFilas))
    /\ contadorFilas' = SiguienteContador(contadorFilas)
    /\ maxIdSesion' = Max(maxIdSesion, contadorFilas)
    /\ maxIdCiclo' = Max(maxIdCiclo, contadorFilas)
    /\ alertas' = << >>
    /\ UNCHANGED << llamada, form, esSolicitud, btnAgregarDisabled, selectSolicitud,
                    enVuelo, ultima, infoSolicitud, bodegaOrigen, detallesJson,
                    enviados >>

\* A remove-row that forgets the placeholder when no child is left.
eliminarFilaSinVacia(f, tb, n, idFila) ==
    LET k == IndiceFila(tb, idFila) IN
    [tbody |-> IF k # 0 THEN SinFila(tb, k) ELSE tb, contadorFilas |-> n]

\* A remove-row that sets the counter back to 0 on every removal.
eliminarFilaConReset(f, tb, n, idFila) ==
    LET k == IndiceFila(tb, idFila)
        resto == IF k # 0 THEN SinFila(tb, k) ELSE tb
    IN  IF Len(resto) # 0 THEN [tbody |-> resto, contadorFilas |-> 0]
        ELSE [tbody |-> << FilaVacia(IF f = "articulos" THEN "sin_agregados"
                                                         ELSE "sin_bienes") >>,
              contadorFilas |-> 0]

\* eliminarFila(idFila) of either form: the container and the counter
\* after it.  The articles form calls limpiarTabla() when no child is
\* left; the goods form writes its placeholder and keeps the counter.
eliminarFila(f, tb, n, idFila) ==
    LET k == IndiceFila(tb, idFila)
        resto == IF k # 0 THEN SinFila(tb, k) ELSE tb
    IN  IF Len(resto) # 0 THEN [tbody |-> resto, contadorFilas |-> n]
        ELSE IF f = "articulos" THEN limpiarTabla
        ELSE [tbody |-> << FilaVacia("sin_bienes") >>, contadorFilas |-> n]

\* Whether eliminarFila(idFila) ends in limpiarTabla().
EliminarLimpia(f, tb, idFila) ==
    LET k == IndiceFila(tb, idFila) IN
    f = "articulos" /\ Len(IF k # 0 THEN SinFila(tb, k) ELSE tb) = 0

\* click on the delete button of fila_<idFila> (manual and goods rows
\* carry one, rows of a request do not).
EliminarFila(idFila) ==
    /\ Abierta
    /\ \E k \in 1..Len(tbody) :
          tbody[k].id = idFila /\ tbody[k].tipo \in {"manual", "bien"}
    /\ LET e == eliminarFila(form, tbody, contadorFilas, idFila) IN
       /\ tbody' = e.tbody
       /\ contadorFilas' = e.contadorFilas
       /\ maxIdCiclo' = IF EliminarLimpia(form, tbody, idFila)
                        THEN -1 ELSE maxIdCiclo
    /\ alertas' = << >>
    /\ UNCHANGED << llamada, form, esSolicitud, btnAgregarDisabled, selectSolicitud,
                    enVuelo, ultima, infoSolicitud, bodegaOrigen, detallesJson,
                    enviados, maxIdSesion >>

\* The values of the options of the select of a row: "" (0) and the ids
\* of the catalog of the form.
OpcionesArticulo ==
    LET catalogo == IF form = "articulos" THEN articulosDisponibles
                                          ELSE activosDisponibles
    IN  {0} \cup { catalogo[i].id : i \in 1..Len(catalogo) }

\* The user picks an option of the select articulo_<id> / activo_<id>
\* (0 is "Seleccione..."); actualizarStock only redraws the stock cell.
ElegirArticulo(k, a) ==
    /\ Abierta
    /\ k \in 1..Len(tbody)
    /\ tbody[k].tipo \in {"manual", "bien"}
    /\ a # tbody[k].articulo
    /\ tbody' = [tbody EXCEPT ![k].articulo = a]
    /\ alertas' = << >>
    /\ UNCHANGED << llamada, form, contadorFilas, esSolicitud, btnAgregarDisabled,
                    selectSolicitud, enVuelo, ultima, infoSolicitud,
                    bodegaOrigen, detallesJson, enviados, maxIdSesion,
                    maxIdCiclo >>

\* The user types into cantidad_<id>: no handler runs.
EscribirCantidad(k, v) ==
    /\ Abierta
    /\ k \in 1..Len(tbody)
    /\ tbody[k].tipo # "vacia"
    /\ v # tbody[k].cantidad
    /\ tbody' = [tbody EXCEPT ![k].cantidad = v]
    /\ alertas' = << >>
    /\ UNCHANGED << llamada, form, contadorFilas, esSolicitud, btnAgregarDisabled,
                    selectSolicitud, enVuelo, ultima, infoSolicitud,
                    bodegaOrigen, detallesJson, enviados, maxIdSesion,
                    maxIdCiclo >>

\* The user types into lote_<id> / serie_<id>: no handler runs.
EscribirLote(k, t) ==
    /\ Abierta
    /\ k \in 1..Len(tbody)
    /\ tbody[k].tipo # "vacia"
    /\ t # tbody[k].lote
    /\ tbody' = [tbody EXCEPT ![k].lote = t]
    /\ alertas' = << >>
    /\ UNCHANGED << llamada, form, contadorFilas, esSolicitud, btnAgregarDisabled,
                    selectSolicitud, enVuelo, ultima, infoSolicitud,
                    bodegaOrigen, detallesJson, enviados, maxIdSesion,
                    maxIdCiclo >>

\* The user picks an option of estado_fisico_<id>: no handler runs.
ElegirEstado(k, e) ==
    /\ Abierta
    /\ k \in 1..Len(tbody)
    /\ tbody[k].tipo = "bien"
    /\ e # tbody[k].estado_fisico
    /\ tbody' = [tbody EXCEPT ![k].estado_fisico = e]
    /\ alertas' = << >>
    /\ UNCHANGED << llamada, form, contadorFilas, esSolicitud, btnAgregarDisabled,
                    selectSolicitud, enVuelo, ultima, infoSolicitud,
                    bodegaOrigen, detallesJson, enviados, maxIdSesion,
                    maxIdCiclo >>

\* ------------------------------------------------------------- the submit
\* validarYEnviarFormulario(e) of the form of the page.
Validar ==
    IF form = "articulos"
    THEN ValidarArticulos(tbody, contadorFilas, esSolicitud)
    ELSE ValidarBienes(tbody, contadorFilas)

\* A submit handler that writes the field before it validates.
EnviarEscribiendo ==
    /\ Abierta
    /\ LET v == Validar IN
       /\ alertas' = v.alertas
       /\ detallesJson' = << JSONstringify(v.detalles) >>
       /\ enviados' = IF v.res = "ok" THEN enviados + 1 ELSE enviados
    /\ UNCHANGED << llamada, form, tbody, contadorFilas, esSolicitud, btnAgregarDisabled,
                    selectSolicitud, enVuelo, ultima, infoSolicitud,
                    bodegaOrigen, maxIdSesion, maxIdCiclo >>

\* submit event: the field is written and form.submit() called only when
\* the validation ends "ok".
Enviar ==
    /\ Abierta
    /\ LET v == Validar IN
       /\ alertas' = v.alertas
       /\ IF v.res = "ok"
          THEN /\ detallesJson' = << JSONstringify(v.detalles) >>
               /\ enviados' = enviados + 1
          ELSE UNCHANGED << detallesJson, enviados >>
    /\ UNCHANGED << llamada, form, tbody, contadorFilas, esSolicitud, btnAgregarDisabled,
                    selectSolicitud, enVuelo, ultima, infoSolicitud,
                    bodegaOrigen, maxIdSesion, maxIdCiclo >>

\* The events of the page, the response bodies being drawn from R.
Eventos(R) ==
    \/ \E r \in Solicitudes : CambiarSolicitud(r)
    \/ LimpiarSeleccion
    \/ \E k \in 1..MaxEnVuelo : FetchRechazado(k)
    \/ \E k \in 1..MaxEnVuelo, resp \in R : RespuestaSinExito(k, resp)
    \/ \E k \in 1..MaxEnVuelo, resp \in R : RespuestaExito(k, resp)
    \/ AgregarArticulo
    \/ AgregarBien
    \/ \E i \in 0..(MaxContador - 1) : EliminarFila(i)
    \/ \E k \in 1..MaxContador, a \in OpcionesArticulo : ElegirArticulo(k, a)
    \/ \E k \in 1..MaxContador, v \in Cantidades : EscribirCantidad(k, v)
    \/ \E k \in 1..MaxContador, t \in Textos : EscribirLote(k, t)
    \/ \E k \in 1..MaxContador, e \in Estados : ElegirEstado(k, e)
    \/ Enviar

Next == Eventos(Respuestas)

Spec == Init /\ [][Next]_vars

\* The same page against an endpoint whose success responses always carry
\* solicitud and articulos.
NextBienFormado == Eventos(RespuestasBienFormadas)

SpecBienFormada == Init /\ [][NextBienFormado]_vars

\* ------------------------------------------ escapeHtml followed on its own
\* The page of either form is about to hand a value to escapeHtml.
InitEscape ==
    /\ InitPagina
    /\ unsafe \in ValoresEscape
    /\ escapado = [hecho |-> FALSE, texto |-> << >>]

\* The call returns.
Escapar ==
    /\ ~escapado.hecho
    /\ escapado' = [hecho |-> TRUE, texto |-> escapeHtml(unsafe)]
    /\ UNCHANGED << unsafe, form, tbody, contadorFilas, esSolicitud,
                    btnAgregarDisabled, selectSolicitud, enVuelo, ultima,
                    infoSolicitud, bodegaOrigen, detallesJson, enviados,
                    alertas, maxIdSesion, maxIdCiclo >>

NextEscape == Escapar

SpecEscape == InitEscape /\ [][NextEscape]_vars

\* ------------------------------------------------ the markup of the page
\* A piece of text that an innerHTML assignment interpolates into its
\* template: what the data held (crudo) and what was written (texto).
Dato(crudo, texto) == [crudo |-> crudo, texto |-> texto]

\* text || porDefecto
OPorDefecto(cs, porDefecto) == IF cs = << >> THEN porDefecto ELSE cs

\* mostrarInfoSolicitud(solicitud): the texts written into datosSolicitud
\* (numero is a number here; the other three are written as they come).
mostrarInfoSolicitud(solicitud) ==
    << Dato(solicitud.solicitante, solicitud.solicitante),
       Dato(solicitud.departamento, solicitud.departamento),
       Dato(OPorDefecto(solicitud.motivo, << "N", "/", "A" >>),
            OPorDefecto(solicitud.motivo, << "N", "/", "A" >>)) >>

\* agregarFilaSolicitud(articulo): the texts written into the article cell
\* and the stock cell.
HTMLFilaSolicitud(articulo) ==
    << Dato(articulo.articulo_codigo, escapeHtml(Texto(articulo.articulo_codigo))),
       Dato(articulo.articulo_nombre, escapeHtml(Texto(articulo.articulo_nombre))),
       Dato(articulo.unidad_medida, escapeHtml(Texto(articulo.unidad_medida))),
       Dato(articulo.unidad_medida, escapeHtml(Texto(articulo.unidad_medida))) >>

\* crearSelectArticulo: the texts written into the option of article art.
HTMLOpcionArticulo(art) ==
    << Dato(art.unidad, escapeHtml(Texto(art.unidad))),
       Dato(art.codigo, escapeHtml(Texto(art.codigo))),
       Dato(art.nombre, escapeHtml(Texto(art.nombre))) >>

\* opcion.getAttribute('data-unidad'): the attribute as the parser read it
\* from the markup crearSelectArticulo wrote.
AtributoUnidad(art) == Decodificar(escapeHtml(Texto(art.unidad)))

\* actualizarStock(idFila) with article a selected (0 is "Seleccione..."):
\* the text written into stock_<idFila>.
actualizarStock(a) ==
    IF a = 0 THEN << >>
    ELSE LET art == articulosDisponibles[
                       CHOOSE i \in 1..Len(articulosDisponibles) :
                          articulosDisponibles[i].id = a]
         IN  << Dato(art.unidad, AtributoUnidad(art)) >>

\* crearSelectActivo: the texts written into the option of asset activo.
HTMLOpcionActivo(activo) ==
    << Dato(activo.nombre, escapeHtml(Texto(activo.nombre))),
       Dato(activo.codigo, escapeHtml(Texto(OPorDefecto(activo.codigo, << >>)))),
       Dato(OPorDefecto(activo.categoria, << "-" >>),
            escapeHtml(Texto(OPorDefecto(activo.categoria, << "-" >>)))) >>

\* The line of a request that a row was built from.
LineaDe(det) ==
    LET r == CHOOSE r \in Solicitudes :
                \E j \in 1..Len(ArticulosDe(r)) :
                   ArticulosDe(r)[j].detalle_solicitud_id = det
        j == CHOOSE j \in 1..Len(ArticulosDe(r)) :
                ArticulosDe(r)[j].detalle_solicitud_id = det
    IN  ArticulosDe(r)[j]

RECURSIVE Aplanar(_)
Aplanar(ss) == IF ss = << >> THEN << >> ELSE Head(ss) \o Aplanar(Tail(ss))

\* The texts written into a row when it was built and, for a manual row,
\* by the change handler of its select.
HTMLFila(f) ==
    CASE f.tipo = "solicitud" -> HTMLFilaSolicitud(LineaDe(f.detalle_solicitud))
      [] f.tipo = "manual" ->
            Aplanar([i \in 1..Len(articulosDisponibles) |->
                        HTMLOpcionArticulo(articulosDisponibles[i])])
            \o actualizarStock(f.articulo)
      [] f.tipo = "bien" ->
            Aplanar([i \in 1..Len(activosDisponibles) |->
                        HTMLOpcionActivo(activosDisponibles[i])])
      [] OTHER -> << >>

\* Every text from the catalog or the endpoint that is in the markup of
\* the page: the panel datosSolicitud and the rows of the container.
HTMLPagina ==
    (IF infoSolicitud.datos # 0
     THEN mostrarInfoSolicitud(SolicitudDe(infoSolicitud.datos)) ELSE << >>)
    \o Aplanar([k \in 1..Len(tbody) |-> HTMLFila(tbody[k])])

\* ====================================================================
\* Properties
\* ====================================================================
\* The real rows of the container, in display order.
Reales(tb) == SelectSeq(tb, LAMBDA f : f.tipo # "vacia")

\* The detalle_solicitud ids of a list of rows / of a list of lines.
DetallesDeFilas(tb) == [k \in 1..Len(tb) |-> tb[k].detalle_solicitud]
DetallesDeLineas(ls) == [k \in 1..Len(ls) |-> ls[k].detalle_solicitud_id]

\* C1 (as claimed): last selection wins.  Once no fetch is in flight, the
\* state is the one of the latest selector change: after a clear the form
\* is in manual mode with no linked row and the add button enabled; after
\* selecting request R whose fetch succeeded, the rows are exactly the
\* lines R's response returned (all of R's lines, or none when the list
\* came back empty).  The code lets a response of an earlier selection
\* decide the final state.
C1_UltimaSeleccionGana ==
    (form = "articulos" /\ enVuelo = << >>) =>
        /\ selectSolicitud = 0 =>
              /\ ~esSolicitud
              /\ \A k \in 1..Len(tbody) : tbody[k].tipo # "solicitud"
              /\ ~btnAgregarDisabled
        /\ (selectSolicitud # 0 /\ ultima = "ok") =>
              /\ \A k \in FilasReales(tbody) : tbody[k].tipo = "solicitud"
              /\ DetallesDeFilas(Reales(tbody)) \in
                    { << >>, DetallesDeLineas(ArticulosDe(selectSolicitud)) }

\* C2 (as claimed): mode uniformity of the articles form.  With
\* esSolicitud true every live row is a row of the request, with
\* esSolicitud false every live row is a manual row.  A success response
\* without solicitud or without articulos sets esSolicitud and then throws,
\* leaving manual rows (or an enabled add button) behind.
C2_ModoUniforme ==
    form = "articulos" =>
        \A k \in FilasReales(tbody) :
            tbody[k].tipo = (IF esSolicitud THEN "solicitud" ELSE "manual")

\* The ids of the rows in the container are pairwise distinct and
\* non-negative.
IdsDistintos ==
    \A j, k \in FilasReales(tbody) :
        /\ tbody[j].id >= 0
        /\ (j # k => tbody[j].id # tbody[k].id)

\* C3: in both forms the ids of the rows in the container are pairwise
\* distinct and non-negative, and a remove-row that leaves no real row
\* leaves exactly one placeholder row and nothing else.
C3_IdsYFilaVacia ==
    /\ [] IdsDistintos
    /\ [][ ((\E i \in 0..(MaxContador - 1) : EliminarFila(i))
             /\ FilasReales(tbody') = {})
           => SoloFilaVacia(tbody') ]_vars

\* A remove-row has emptied the container of a page that had created at
\* least two rows: the placeholder is back.
C3_Testigo ==
    /\ SoloFilaVacia(tbody) /\ maxIdSesion >= 1
    /\ \/ form = "bienes"
       \/ (form = "articulos" /\ selectSolicitud = 0 /\ ultima = "ninguna"
           /\ infoSolicitud.datos = 0)

\* The ids of the rows a step creates: the row add-row appends, or the
\* rows a completed load builds (every row of the new container).
CreaFilas ==
    \/ AgregarArticulo
    \/ AgregarBien
    \/ \E k \in 1..MaxEnVuelo, resp \in Respuestas :
          RespuestaExito(k, resp) /\ resp.conSolicitud /\ resp.articulos = "lineas"

IdsCreados ==
    IF AgregarArticulo \/ AgregarBien
    THEN { tbody'[Len(tbody')].id }
    ELSE { tbody'[k].id : k \in 1..Len(tbody') }

\* C4 (as claimed): in both forms a new row's id is strictly greater than
\* the id of every row created earlier in the session.  The articles form
\* resets contadorFilas to 0 in limpiarTabla, so ids restart from 0.
C4_IdsNuncaReusados ==
    [][ CreaFilas => \A i \in IdsCreados : i > maxIdSesion ]_vars

\* C4 (amended): a new row's id is strictly greater than the id of every
\* row created since limpiarTabla last ran (since the page loaded, when it
\* never ran); the goods form never runs it, so there the id is greater
\* than every id of the session.  Rows built by one load get increasing
\* ids in response order.
C4_IdsCrecenEntreLimpiezas ==
    [][ CreaFilas =>
          /\ \A i \in IdsCreados : i > maxIdCiclo
          /\ form = "bienes" => \A i \in IdsCreados : i > maxIdSesion
          /\ \A j, k \in 1..Len(tbody') :
                (j < k /\ tbody'[j].tipo # "vacia") => tbody'[j].id < tbody'[k].id
      ]_vars

\* The articles form has handed out an id again after a clear: the live
\* row's id is not above the largest id of the session.
C4_Testigo ==
    /\ form = "articulos"
    /\ \E k \in FilasReales(tbody) : tbody[k].id < maxIdSesion
    /\ maxIdCiclo < maxIdSesion

\* C5 (as claimed): a fetch that completes with success and a non-empty
\* list of lines leaves esSolicitud true, the add button disabled and the
\* container holding exactly one row of the request per returned line, in
\* response order, each with quantity equal to the line's pending
\* quantity; no earlier row and no placeholder is left.  A success
\* response that carries the lines but no solicitud throws in
\* mostrarInfoSolicitud before the table is touched.
C5_CargaExitosa ==
    [][ \A k \in 1..MaxEnVuelo, resp \in Respuestas :
          (RespuestaExito(k, resp) /\ resp.articulos = "lineas"
           /\ Len(ArticulosDe(enVuelo[k])) > 0)
          => LET lineas == ArticulosDe(enVuelo[k]) IN
             /\ esSolicitud'
             /\ btnAgregarDisabled'
             /\ Len(tbody') = Len(lineas)
             /\ \A j \in 1..Len(lineas) :
                   /\ tbody'[j].tipo = "solicitud"
                   /\ tbody'[j].detalle_solicitud = lineas[j].detalle_solicitud_id
                   /\ tbody'[j].articulo = lineas[j].articulo_id
                   /\ tbody'[j].cantidad = << lineas[j].cantidad_pendiente >>
      ]_vars

\* A fetch completes by rejection or with success: false.
CargaFallida ==
    \/ \E k \in 1..MaxEnVuelo : FetchRechazado(k)
    \/ \E k \in 1..MaxEnVuelo, resp \in Respuestas : RespuestaSinExito(k, resp)

\* C6: a fetch that completes by rejection or with success: false raises
\* exactly one message and leaves esSolicitud, the rows with their field
\* values, contadorFilas and the add button as they were.
C6_CargaFallidaNoCambia ==
    [][ CargaFallida =>
          /\ Len(alertas') = 1
          /\ UNCHANGED << esSolicitud, tbody, contadorFilas, btnAgregarDisabled >>
      ]_vars

\* A failed load has just been reported while the table held an edited
\* manual row.
C6_Testigo ==
    /\ Len(alertas) = 1
    /\ alertas[1].texto \in {"error_cargar", "error_cargar_detalle"}
    /\ ~esSolicitud
    /\ \E k \in FilasReales(tbody) : tbody[k].tipo = "manual" /\ tbody[k].articulo # 0

\* C7: handling the clearing of the request selection, from any state,
\* yields esSolicitud false, no real row (only the placeholder),
\* contadorFilas = 0 and the add button enabled.
C7_VolverAManual ==
    [][ LimpiarSeleccion =>
          /\ ~esSolicitud'
          /\ SoloFilaVacia(tbody')
          /\ contadorFilas' = 0
          /\ ~btnAgregarDisabled'
      ]_vars

\* The selection has been cleared after a request was loaded: the panel
\* written by the load is hidden and the table is back to the placeholder.
C7_Testigo ==
    /\ form = "articulos" /\ selectSolicitud = 0 /\ ultima = "ninguna"
    /\ infoSolicitud.datos # 0 /\ ~infoSolicitud.visible
    /\ maxIdSesion >= 1
    /\ ~esSolicitud /\ SoloFilaVacia(tbody) /\ contadorFilas = 0
    /\ ~btnAgregarDisabled

\* Reading a written payload: whether an object has a key, and its value.
TieneCampo(o, c) == \E j \in 1..Len(o) : o[j].k = c
Campo(o, c) == o[CHOOSE j \in 1..Len(o) : o[j].k = c].v

Aceptado == enviados' = enviados + 1 /\ detallesJson' # << >>
Rechazado == enviados' = enviados /\ detallesJson' = detallesJson

\* A live row without a selected catalog reference.
SinReferencia == \E k \in FilasReales(tbody) : tbody[k].articulo = 0

\* The quantity of a row is positive and within the bounds that apply to
\* it: pending and stock for a row of a request, the stock of the selected
\* article for a manual row, at least 1 for a row of the goods form.
CantidadEnRango(f) ==
    /\ f.cantidad # << >>
    /\ f.cantidad[1] > 0
    /\ CASE f.tipo = "solicitud" ->
              f.cantidad[1] <= f.pendiente /\ f.cantidad[1] <= f.stock
         [] f.tipo = "manual" ->
              \E a \in 1..Len(articulosDisponibles) :
                 /\ articulosDisponibles[a].id = f.articulo
                 /\ f.cantidad[1] <= articulosDisponibles[a].stock
         [] OTHER -> f.cantidad[1] >= 2

TodoValido ==
    /\ FilasReales(tbody) # {}
    /\ \A k \in FilasReales(tbody) :
          tbody[k].articulo # 0 /\ CantidadEnRango(tbody[k])

\* C8 (as claimed): in both forms a submit is rejected whenever a live row
\* has no selected reference, and accepted (payload written, form
\* submitted) whenever there is a real row and every live row has a
\* reference and a quantity that is positive and in bounds.  After a
\* success response that threw, esSolicitud is true over manual rows and
\* the loop skips them: the submit goes through with an empty payload.
C8_RechazaSinReferencia ==
    [][ Enviar =>
          /\ SinReferencia => Rechazado
          /\ TodoValido => Aceptado
      ]_vars

\* A row of a request whose quantity exceeds its pending quantity or its
\* stock, both as captured when the row was built.
ExcedeSolicitud(f) ==
    /\ f.tipo = "solicitud"
    /\ f.cantidad # << >>
    /\ (f.cantidad[1] > f.pendiente \/ f.cantidad[1] > f.stock)

\* Every record of the payload being written belongs to a row of a
\* request and has 0 < cantidad <= min(pending, stock) of that row.
RegistrosEnRangoSolicitud ==
    \A i \in 1..Len(detallesJson'[1]) :
        LET o == detallesJson'[1][i] IN
        /\ TieneCampo(o, "detalle_solicitud_id")
        /\ Campo(o, "cantidad").lit = "numero"
        /\ \E k \in FilasReales(tbody) :
              /\ tbody[k].tipo = "solicitud"
              /\ tbody[k].detalle_solicitud = Campo(o, "detalle_solicitud_id").n
              /\ Campo(o, "cantidad").n > 0
              /\ Campo(o, "cantidad").n <= tbody[k].pendiente
              /\ Campo(o, "cantidad").n <= tbody[k].stock

\* The table as a completed load left it, quantities untouched: the
\* placeholder of a request without lines, or rows of a request that all
\* still show their pending quantity.
RecienCargada ==
    \/ tbody = << FilaVacia("sin_articulos_solicitud") >>
    \/ /\ Len(tbody) > 0
       /\ \A k \in 1..Len(tbody) :
             tbody[k].tipo = "solicitud" /\ tbody[k].cantidad = << tbody[k].pendiente >>

\* Some line of the loaded request has pending quantity above its stock,
\* or not positive.
LineaNoEntregable ==
    \E k \in FilasReales(tbody) :
        tbody[k].pendiente > tbody[k].stock \/ tbody[k].pendiente <= 0

EnviarSolicitud == Enviar /\ form = "articulos" /\ esSolicitud

\* C9 (as claimed): linked mode.  A submit is rejected if a live row's
\* quantity exceeds its pending quantity or its stock snapshot; every
\* record of an emitted payload has 0 < cantidad <= min(pending, stock);
\* and submitting a freshly loaded request with untouched quantities is
\* rejected exactly when some line has pending above stock or not
\* positive.  A request whose list came back empty is rejected too (the
\* table holds the placeholder) although no line is at fault.
C9_LimitesSolicitud ==
    [][ EnviarSolicitud =>
          /\ (\E k \in FilasReales(tbody) : ExcedeSolicitud(tbody[k])) => Rechazado
          /\ Aceptado => RegistrosEnRangoSolicitud
          /\ RecienCargada => (Rechazado <=> LineaNoEntregable)
      ]_vars

\* C9 (amended): as claimed, with the last part for a freshly loaded
\* request that has at least one line.
C9_LimitesSolicitudConLineas ==
    [][ EnviarSolicitud =>
          /\ (\E k \in FilasReales(tbody) : ExcedeSolicitud(tbody[k])) => Rechazado
          /\ Aceptado => RegistrosEnRangoSolicitud
          /\ (RecienCargada /\ FilasReales(tbody) # {})
                => (Rechazado <=> LineaNoEntregable)
      ]_vars

\* Request 2 was loaded, the quantity of its second line was lowered to
\* its stock and the submit went through with both lines.
C9_Testigo ==
    /\ form = "articulos" /\ esSolicitud /\ enviados = 1
    /\ Len(detallesJson[1]) = 2
    /\ \E k \in FilasReales(tbody) :
          tbody[k].pendiente > tbody[k].stock /\ tbody[k].cantidad = << tbody[k].stock >>

\* The stock the catalog gives for article a.
StockCatalogo(a) ==
    articulosDisponibles[CHOOSE i \in 1..Len(articulosDisponibles) :
                            articulosDisponibles[i].id = a].stock

\* A manual row whose quantity exceeds the stock of the article selected
\* in it.
ExcedeStock(f) ==
    /\ f.tipo = "manual" /\ f.articulo # 0
    /\ f.cantidad # << >>
    /\ f.cantidad[1] > StockCatalogo(f.articulo)

\* A manual row that fails one of the checks of the loop.
FilaManualInvalida(f) ==
    \/ f.articulo = 0
    \/ ExcedeStock(f)
    \/ f.cantidad = << >>
    \/ f.cantidad[1] <= 0

\* Every record of the payload being written has 0 < cantidad <= stock of
\* the catalog entry its articulo_id names.
RegistrosEnRangoManual ==
    \A i \in 1..Len(detallesJson'[1]) :
        LET o == detallesJson'[1][i] IN
        /\ ~TieneCampo(o, "detalle_solicitud_id")
        /\ Campo(o, "cantidad").lit = "numero"
        /\ Campo(o, "cantidad").n > 0
        /\ \E a \in 1..Len(articulosDisponibles) :
              /\ articulosDisponibles[a].id = Campo(o, "articulo_id").n
              /\ Campo(o, "cantidad").n <= articulosDisponibles[a].stock

EnviarManual == Enviar /\ form = "articulos" /\ ~esSolicitud

\* C10 (as claimed): manual mode.  A submit is rejected, with a message
\* carrying the requested and the available value, if a live row's
\* quantity exceeds the stock of the article selected in it; every record
\* of a payload emitted in manual mode has 0 < cantidad <= stock of its
\* articulo_id.  The message is the one of the first violation: a row of
\* smaller id without an article is reported instead, without values.
C10_LimiteManual ==
    [][ EnviarManual =>
          /\ (\E k \in FilasReales(tbody) : ExcedeStock(tbody[k]))
                => /\ Rechazado
                   /\ Len(alertas') = 1
                   /\ Len(alertas'[1].valores) = 2
          /\ Aceptado => RegistrosEnRangoManual
      ]_vars

\* C10 (amended): the submit is rejected if a live row's quantity exceeds
\* the stock of its article, and the message carries that row's requested
\* and available values when no row of smaller id fails a check; every
\* record of a payload emitted in manual mode has 0 < cantidad <= stock of
\* its articulo_id.
C10_LimiteManualPrimera ==
    [][ EnviarManual =>
          /\ \A k \in FilasReales(tbody) :
                ExcedeStock(tbody[k]) =>
                   /\ Rechazado
                   /\ (\A j \in FilasReales(tbody) :
                          tbody[j].id < tbody[k].id => ~FilaManualInvalida(tbody[j]))
                      => alertas' = << [texto |-> "excede_stock",
                                        valores |-> << tbody[k].cantidad[1],
                                                       StockCatalogo(tbody[k].articulo) >>] >>
          /\ Aceptado => RegistrosEnRangoManual
      ]_vars

\* A manual submit has just been rejected for stock on the second row,
\* the first row being in order.
C10_Testigo ==
    /\ form = "articulos" /\ ~esSolicitud /\ enviados = 0
    /\ Len(alertas) = 1 /\ alertas[1].texto = "excede_stock"
    /\ Len(tbody) = 2
    /\ ~FilaManualInvalida(tbody[1]) /\ ExcedeStock(tbody[2])
    /\ alertas[1].valores = << tbody[2].cantidad[1], StockCatalogo(tbody[2].articulo) >>

\* The quantity typed in a row of the goods form is an integer >= 1.
EnteroPositivo(v) == v # << >> /\ v[1] % 2 = 0 /\ v[1] >= 2

EnviarBienes == Enviar /\ form = "bienes"

\* C11 (as claimed): goods form.  A submit in which some live row's
\* quantity is missing, not an integer or below 1 is rejected.  The code
\* tests parseInt(value) <= 0, so "1.5" passes and is sent as 1.
C11_CantidadEntera ==
    [][ EnviarBienes =>
          ((\E k \in FilasReales(tbody) : ~EnteroPositivo(tbody[k].cantidad))
             => Rechazado)
      ]_vars

\* C12: in both forms a submit issued while the container has no real row
\* is rejected with the message that asks for at least one line; the
\* field is not written and form.submit() is not called.
C12_EnvioVacio ==
    [][ (Enviar /\ FilasReales(tbody) = {}) =>
          /\ Rechazado
          /\ alertas' = << [texto |-> IF form = "articulos"
                                      THEN "debe_agregar_articulo"
                                      ELSE "debe_agregar_bien",
                            valores |-> << >>] >>
      ]_vars

\* An empty submit has just been refused on a page whose rows had all been
\* removed.
C12_Testigo ==
    /\ enviados = 0 /\ detallesJson = << >>
    /\ SoloFilaVacia(tbody) /\ maxIdSesion >= 0
    /\ Len(alertas) = 1
    /\ alertas[1].texto \in {"debe_agregar_articulo", "debe_agregar_bien"}

\* The rules a row breaks, in the order of the checks: reference, bounds
\* (pending then stock for the rows of a request, stock of the selected
\* article for a manual row), quantity present and positive.
ViolacionesDeFila(f) ==
    LET c == f.cantidad
        m(texto, valores) == [texto |-> texto, valores |-> valores]
        si(b, a) == IF b THEN << a >> ELSE << >>
    IN  IF form = "bienes"
        THEN si(f.articulo = 0, m("seleccione_bien", << >>))
             \o si(c = << >> \/ c[1] < 2, m("cantidad_valida", << >>))
        ELSE IF esSolicitud
        THEN si(f.articulo = 0, m("seleccione_articulo", << >>))
             \o si(c # << >> /\ c[1] > f.pendiente,
                   m("excede_pendiente", << c[1], f.pendiente >>))
             \o si(c # << >> /\ c[1] > f.stock,
                   m("excede_stock_solicitud", << c[1], f.stock >>))
             \o si(c = << >> \/ c[1] <= 0, m("cantidad_valida", << >>))
        ELSE si(f.articulo = 0, m("seleccione_articulo", << >>))
             \o si(f.articulo # 0 /\ c # << >> /\ c[1] > StockCatalogo(f.articulo),
                   m("excede_stock", << c[1], StockCatalogo(f.articulo) >>))
             \o si(c = << >> \/ c[1] <= 0, m("cantidad_valida", << >>))

\* The message of the first violation: the empty table, else the first
\* broken rule of the row of smallest id that breaks one.
PrimerasViolaciones ==
    IF FilasReales(tbody) = {}
    THEN { [texto |-> IF form = "articulos" THEN "debe_agregar_articulo"
                                            ELSE "debe_agregar_bien",
            valores |-> << >>] }
    ELSE LET malas == { k \in FilasReales(tbody) :
                          ViolacionesDeFila(tbody[k]) # << >> }
         IN  { Head(ViolacionesDeFila(tbody[k])) :
                 k \in { k \in malas :
                           \A j \in malas : tbody[k].id <= tbody[j].id } }

\* C13: in both forms a rejected submit raises exactly one message, the
\* one of the first violation in validation order (rows by ascending id;
\* in a row: reference, then bounds, then quantity present and positive).
C13_PrimeraViolacion ==
    [][ (Enviar /\ enviados' = enviados) =>
          \E v \in PrimerasViolaciones : alertas' = << v >>
      ]_vars

\* A submit has just been refused for a row of a request whose quantity is
\* above both its pending quantity and its stock: the pending quantity is
\* the one reported.
C13_Testigo ==
    /\ enviados = 0 /\ esSolicitud
    /\ Len(alertas) = 1 /\ alertas[1].texto = "excede_pendiente"
    /\ \E k \in FilasReales(tbody) :
          /\ tbody[k].tipo = "solicitud" /\ tbody[k].cantidad # << >>
          /\ tbody[k].cantidad[1] > tbody[k].pendiente
          /\ tbody[k].cantidad[1] > tbody[k].stock
          /\ alertas[1].valores = << tbody[k].cantidad[1], tbody[k].pendiente >>

\* C14: in both forms a rejected submit leaves detallesJson, the rows with
\* their field values, contadorFilas and esSolicitud as they were, does
\* not call form.submit(), and the page still takes a submit.
C14_RechazoNoCambia ==
    [][ (Enviar /\ enviados' = enviados) =>
          /\ detallesJson' = detallesJson
          /\ UNCHANGED << tbody, contadorFilas, esSolicitud >>
          /\ Abierta'
      ]_vars

\* A submit has just been refused for a quantity left empty: the rows are
\* still there and the field is still empty.
C14_Testigo ==
    /\ enviados = 0 /\ detallesJson = << >>
    /\ Len(alertas) = 1 /\ alertas[1].texto = "cantidad_valida"
    /\ \E k \in FilasReales(tbody) :
          tbody[k].articulo # 0 /\ tbody[k].cantidad = << >>

\* The key that holds the catalog reference in a record of the payload.
ClaveReferencia == IF form = "articulos" THEN "articulo_id" ELSE "equipo_id"

\* C15 (as claimed): in both forms an accepted submit writes one record
\* per live row, in ascending id order, which is the display order, each
\* with the row's current reference and quantity; the payload is not
\* empty and form.submit() is called once.  With esSolicitud true over
\* manual rows the loop skips every row and the payload is empty; the
\* goods form sends the integer part of a quantity such as 1.5.
C15_UnRegistroPorFila ==
    [][ (Enviar /\ enviados' # enviados) =>
          LET filas == Reales(tbody) IN
          /\ enviados' = enviados + 1
          /\ detallesJson' # << >>
          /\ Len(detallesJson'[1]) = Len(filas)
          /\ Len(filas) > 0
          /\ \A i, j \in 1..Len(filas) : i < j => filas[i].id < filas[j].id
          /\ \A i \in 1..Len(filas) :
                LET o == detallesJson'[1][i] IN
                /\ Campo(o, ClaveReferencia).lit = "numero"
                /\ Campo(o, ClaveReferencia).n = filas[i].articulo
                /\ Campo(o, "cantidad").lit = "numero"
                /\ filas[i].cantidad = << Campo(o, "cantidad").n >>
      ]_vars

\* The rows of the container that were built from a line of a request.
FilasDeLinea(tb) == SelectSeq(tb, LAMBDA f : f.tipo = "solicitud")

\* C16: articles form.  A record of an emitted payload carries
\* detalle_solicitud_id exactly when the submit happened with esSolicitud
\* true; then every record carries the id of the request line its row was
\* built from, and with esSolicitud false no record carries the field.
C16_DetalleSolicitudId ==
    [][ (Enviar /\ form = "articulos" /\ enviados' # enviados) =>
          LET p == detallesJson'[1]
              filas == FilasDeLinea(tbody)
          IN
          /\ \A i \in 1..Len(p) :
                TieneCampo(p[i], "detalle_solicitud_id") <=> esSolicitud
          /\ esSolicitud =>
                /\ Len(p) = Len(filas)
                /\ \A i \in 1..Len(p) :
                      /\ Campo(p[i], "detalle_solicitud_id").lit = "numero"
                      /\ Campo(p[i], "detalle_solicitud_id").n = filas[i].detalle_solicitud
                      /\ \E r \in Solicitudes : \E j \in 1..Len(ArticulosDe(r)) :
                            /\ ArticulosDe(r)[j].detalle_solicitud_id
                                  = Campo(p[i], "detalle_solicitud_id").n
                            /\ ArticulosDe(r)[j].articulo_id
                                  = Campo(p[i], "articulo_id").n
      ]_vars

\* Request 1 was loaded and submitted: the only record carries line 11.
C16_Testigo ==
    /\ form = "articulos" /\ esSolicitud /\ enviados = 1
    /\ detallesJson # << >> /\ Len(detallesJson[1]) = 1
    /\ TieneCampo(detallesJson[1][1], "detalle_solicitud_id")
    /\ Campo(detallesJson[1][1], "detalle_solicitud_id").n = 11

\* Decoding a written payload: each literal back to the value it denotes.
JSONparseValor(l) ==
    CASE l.lit = "numero" -> [t |-> "number", n |-> << l.n >>, s |-> ""]
      [] l.lit = "cadena" -> [t |-> "string", n |-> << >>, s |-> l.s]
      [] OTHER -> [t |-> "null", n |-> << >>, s |-> ""]

JSONparse(texto) ==
    [i \in 1..Len(texto) |->
        [j \in 1..Len(texto[i]) |->
            [k |-> texto[i][j].k, v |-> JSONparseValor(texto[i][j].v)]]]

\* The value expected for an optional text field: the text, or null.
TextoONull(s) ==
    IF s = "" THEN [t |-> "null", n |-> << >>, s |-> ""]
    ELSE [t |-> "string", n |-> << >>, s |-> s]

\* C17 (as claimed): in both forms, decoding the payload written by an
\* accepted submit gives back the rows: as many records, in the same
\* order, reference and quantity as the numbers of the row, each optional
\* text equal to the entered text or null when left empty.  With
\* esSolicitud true over manual rows the payload is empty although rows
\* are shown; the goods form writes the integer part of the quantity.
C17_IdaYVuelta ==
    [][ (Enviar /\ enviados' # enviados) =>
          LET d == JSONparse(detallesJson'[1])
              filas == Reales(tbody)
          IN
          /\ Len(d) = Len(filas)
          /\ \A i \in 1..Len(d) :
                /\ Campo(d[i], ClaveReferencia)
                      = [t |-> "number", n |-> << filas[i].articulo >>, s |-> ""]
                /\ Campo(d[i], "cantidad")
                      = [t |-> "number", n |-> filas[i].cantidad, s |-> ""]
                /\ IF form = "articulos"
                   THEN Campo(d[i], "lote") = TextoONull(filas[i].lote)
                   ELSE /\ Campo(d[i], "numero_serie") = TextoONull(filas[i].lote)
                        /\ Campo(d[i], "estado_fisico")
                              = TextoONull(filas[i].estado_fisico)
      ]_vars

\* The rows of tb other than the one with id i, in order.
SinId(tb, i) == SelectSeq(tb, LAMBDA f : f.id # i)

\* C20: eliminarFila(idFila), both forms, removes exactly the row with
\* that id and leaves the other rows, their order and their field
\* values as they were; contadorFilas is unchanged unless no row is left,
\* when the placeholder is written and the counter becomes 0 in the
\* articles form and stays in the goods form; with an id that no row has,
\* no row changes.
C20_EliminarSoloEsa ==
    /\ [] \A i \in 0..MaxContador :
            (\A k \in 1..Len(tbody) : tbody[k].id # i)
               => Reales(eliminarFila(form, tbody, contadorFilas, i).tbody)
                     = Reales(tbody)
    /\ [][ \A i \in 0..(MaxContador - 1) :
             EliminarFila(i) =>
                LET quedan == SinId(Reales(tbody), i) IN
                /\ Len(quedan) = Len(Reales(tbody)) - 1
                /\ Reales(tbody') = quedan
                /\ IF Len(quedan) > 0
                   THEN tbody' = quedan /\ contadorFilas' = contadorFilas
                   ELSE /\ SoloFilaVacia(tbody')
                        /\ contadorFilas' = IF form = "articulos"
                                            THEN 0 ELSE contadorFilas
          ]_vars

\* The first of two rows has been removed: the second is still there with
\* its id and what was typed in it, and the counter still stands at 2.
C20_Testigo ==
    /\ Len(tbody) = 1 /\ tbody[1].tipo \in {"manual", "bien"}
    /\ tbody[1].id = 1 /\ tbody[1].articulo # 0 /\ tbody[1].lote # ""
    /\ contadorFilas = 2 /\ ~esSolicitud

\* A text with each of the five characters replaced by its entity.
RECURSIVE ConEntidades(_)
ConEntidades(cs) ==
    IF cs = << >> THEN << >> ELSE Entidad(Head(cs)) \o ConEntidades(Tail(cs))

\* The text a value displays as: a text as itself, a number as its digits.
TextoDe(x) ==
    IF x.t = "string" THEN x.cs
    ELSE << << "0", "1", "2", "3", "4", "5", "6", "7", "8", "9" >>[x.n + 1] >>

EscapeCorrecto(x) ==
    /\ escapado.texto = ConEntidades(TextoDe(x))
    /\ \A i \in 1..Len(escapado.texto) :
          escapado.texto[i] \notin {"<", ">", "\"", "'"}
    /\ Decodificar(escapado.texto) = TextoDe(x)

\* C18 (as claimed): for every text, and every value a catalog field can
\* take, the number 0 and the empty text included, escapeHtml returns the
\* input with &, <, >, " and ' replaced by their entities and every other
\* character in place; the result holds none of <, >, " and ' and
\* decoding the entities gives the input back.  The code returns the
\* empty text for every falsy value, so the number 0 gives "" and not "0".
C18_EscapeHtml ==
    (escapado.hecho /\ unsafe.t # "undefined") => EscapeCorrecto(unsafe)

\* A text was written escaped: each of the five characters as its entity.
Escapado(d) == d.texto = ConEntidades(d.crudo)

\* C19 (as claimed): every text from the catalog, the request lines or
\* the request header that is in the markup of the page was written
\* through escapeHtml.  mostrarInfoSolicitud writes solicitante,
\* departamento and motivo as they come, and actualizarStock writes the
\* unit read back from the data-unidad attribute, which the parser has
\* already decoded.
C19_TodoEscapado ==
    \A i \in 1..Len(HTMLPagina) : Escapado(HTMLPagina[i])

\* A fetch completes, whatever its outcome.
FetchTermina ==
    \/ \E k \in 1..MaxEnVuelo : FetchRechazado(k)
    \/ \E k \in 1..MaxEnVuelo, resp \in Respuestas : RespuestaSinExito(k, resp)
    \/ \E k \in 1..MaxEnVuelo, resp \in Respuestas : RespuestaExito(k, resp)

\* C21 (as claimed): articles form.  For every shape of the response, a
\* fetch that completes either makes the whole transition (esSolicitud
\* true, only rows of the request or the placeholder in the container,
\* add button disabled) or leaves esSolicitud, the rows and the button as
\* they were; and no state has esSolicitud true with a manual row in the
\* container or with the add button enabled.  A success response without
\* solicitud or without articulos throws after esSolicitud = true.
C21_TodoONada ==
    /\ [] ((form = "articulos" /\ esSolicitud) =>
              /\ btnAgregarDisabled
              /\ \A k \in FilasReales(tbody) : tbody[k].tipo = "solicitud")
    /\ [][ FetchTermina =>
             \/ /\ esSolicitud' /\ btnAgregarDisabled'
                /\ Len(tbody') > 0
                /\ \A k \in 1..Len(tbody') : tbody'[k].tipo \in {"solicitud", "vacia"}
             \/ UNCHANGED << esSolicitud, tbody, btnAgregarDisabled >>
          ]_vars

\* The detalle_solicitud ids of the lines of the request shown in the
\* selector (none when the selector is empty).
LineasSeleccionadas ==
    IF selectSolicitud = 0 THEN {}
    ELSE { ArticulosDe(selectSolicitud)[j].detalle_solicitud_id :
             j \in 1..Len(ArticulosDe(selectSolicitud)) }

\* C22 (as claimed): articles form.  Whenever a submit is accepted with
\* esSolicitud true, every record's detalle_solicitud_id is the id of a
\* line of the request shown in the selector at that moment.  A response
\* that arrives after the selection has changed loads the lines of the
\* earlier request, and the submit sends them.
C22_LineasDeLaSeleccion ==
    [][ (Enviar /\ form = "articulos" /\ esSolicitud /\ enviados' # enviados) =>
          \A i \in 1..Len(detallesJson'[1]) :
              /\ TieneCampo(detallesJson'[1][i], "detalle_solicitud_id")
              /\ Campo(detallesJson'[1][i], "detalle_solicitud_id").n
                    \in LineasSeleccionadas
      ]_vars

\* C23: in both forms the container holds no child, or the placeholder
\* alone, or real rows only; so the first child alone tells whether there
\* is a real row.
C23_FilaVaciaSola ==
    /\ (FilasReales(tbody) = {} => (Len(tbody) = 0 \/ SoloFilaVacia(tbody)))
    /\ (FilasReales(tbody) # {} => \A k \in 1..Len(tbody) : tbody[k].tipo # "vacia")
    /\ ((Len(tbody) = 0 \/ tbody[1].tipo = "vacia") <=> FilasReales(tbody) = {})

\* Two manual rows stand where the placeholder stood after a loaded
\* request was cleared.
C23_Testigo ==
    /\ form = "articulos" /\ ~esSolicitud /\ infoSolicitud.datos # 0
    /\ Len(tbody) = 2
    /\ \A k \in 1..Len(tbody) : tbody[k].tipo = "manual"

\* C24: in both forms every live row has an id in 0 .. contadorFilas - 1,
\* so the loop of the validator reaches it.
C24_IdsBajoContador ==
    \A k \in FilasReales(tbody) :
        tbody[k].id >= 0 /\ tbody[k].id < contadorFilas

\* A request was loaded over a table that had already handed out id 0:
\* its row is fila_1 and the counter stands at 2.
C24_Testigo ==
    /\ form = "articulos" /\ esSolicitud /\ btnAgregarDisabled
    /\ Len(tbody) = 1 /\ tbody[1].tipo = "solicitud"
    /\ tbody[1].id = 1 /\ contadorFilas = 2

====
